---- MODULE Spec2Model ----
(***************************************************************************)
(* The theme editor (src/components/Editor.vue, src/fetch-css.js), the     *)
(* earlier colour-only editor component kept with fetch-css.js, and the    *)
(* rendering service (src/tailwind-as-a-service.js).                       *)
(*                                                                         *)
(* One page (client = "Editor" or "App") or a set of other HTTP clients    *)
(* (client = "Other") talks to one service process.  A request is a record *)
(* that moves through the stages                                           *)
(*   "sent"       on the wire, not yet seen by the service                 *)
(*   "processing" the route handler awaits postcss                         *)
(*   "answered"   the service has written a response                       *)
(*   "unanswered" the handler's promise rejected; nothing was written      *)
(* and leaves `requests` when its fetch promise settles on the page.       *)
(***************************************************************************)
EXTENDS Integers, Sequences, FiniteSets, TLC

\* Bounds of the model.
MaxRequests == 3      \* render requests one page issues
MaxOther == 3         \* requests the other clients post

\* tailwind-as-a-service.js: const port = 8080
port == 8080

-----------------------------------------------------------------------------
(* Texts.  A string the code inspects is a sequence of characters.          *)

rem == <<"r", "e", "m">>

\* The index of the first occurrence of pat in s, or 0.
indexOf(s, pat) ==
  LET at == {i \in 1..(Len(s) - Len(pat) + 1) :
               SubSeq(s, i, i + Len(pat) - 1) = pat}
  IN IF at = {} THEN 0 ELSE CHOOSE i \in at : \A j \in at : i <= j

\* String.prototype.replace with a string pattern, as it would be if it
\* returned its receiver.
replaceNothing(s, pat, by) == s

\* String.prototype.replace with a string pattern: the first occurrence is
\* replaced.
replace(s, pat, by) ==
  LET i == indexOf(s, pat)
  IN IF i = 0 THEN s
     ELSE SubSeq(s, 1, i - 1) \o by \o SubSeq(s, i + Len(pat), Len(s))

endsWith(s, suffix) ==
  Len(s) >= Len(suffix) /\ SubSeq(s, Len(s) - Len(suffix) + 1, Len(s)) = suffix

\* css = ref('')
NoCss == [kind |-> "empty"]

\* const defaultCss = `@import base; @import components; @import utilities`
defaultCss == <<"tailwindcss/base", "tailwindcss/components", "tailwindcss/utilities">>

-----------------------------------------------------------------------------
(* The theme configuration: one leaf per path.                              *)

ColorLeaves == {<<"colors", "primary", "50">>}
SizeLeaves == {<<"fontSize", "size-title3">>}
WeightLeaves == {<<"fontWeight", "weight-button">>}
Leaves == ColorLeaves \cup SizeLeaves \cup WeightLeaves

\* export const customTailwindConfig = { colors, fontSize, fontWeight }
customTailwindConfig ==
  [l \in Leaves |->
     IF l \in ColorLeaves THEN "#243d48"
     ELSE IF l \in SizeLeaves THEN <<"1", ".", "2", "5">> \o rem
     ELSE 400]

\* import colors from 'tailwindcss/colors': the palette, with the entries
\* the component filters out.
PaletteLeaves == {<<"slate", "50">>, <<"black">>, <<"inherit">>}
colors ==
  [l \in PaletteLeaves |->
     IF l = <<"slate", "50">> THEN "#f8fafc"
     ELSE IF l = <<"black">> THEN "#000" ELSE "inherit"]

\* Object.entries(colors).filter(([colorName]) => ![...].includes(colorName))
Filtered == {"inherit", "current", "transparent", "black", "white"}
editableColorsInit ==
  [l \in {p \in PaletteLeaves : p[1] \notin Filtered} |-> colors[l]]

\* What the user can commit in a field.
ColorInputs == {"#243d48", "#ff0000"}
PaletteInputs == ColorInputs \cup {"#f8fafc"}
SizeInputs == {<<>>, <<"1", ".", "5">>}
WeightInputs == {50, 400, 1000}

\* The markup of the page the editor is mounted in: a small page, and one
\* that fits a request body by itself but not together with a stylesheet text.
Markups == {"page", "largepage"}

-----------------------------------------------------------------------------
VARIABLES
  client,               \* which program drives the service in this run
  markup,               \* the host page's own markup
  mounted,              \* the component's onMounted hook has run
  editableCustomConfig, \* Editor.vue: reactive(customTailwindConfig)
  editableColors,       \* colour-only editor: reactive(filtered palette)
  css,                  \* Editor.vue: const css = ref('')
  colorInput,           \* Editor.vue: the value each <input type="color"> shows
  styleElements,        \* contents of the <style id="css"> elements in <head>
  requests,             \* id -> request in flight
  nextId,               \* id of the next request
  applied,              \* id of the request whose response the stylesheet shows
  failures,             \* how requests of the page have failed so far
  listening             \* the service process is alive and listening

vars == <<client, markup, mounted, editableCustomConfig, editableColors, css,
          colorInput, styleElements, requests, nextId, applied, failures, listening>>

Ids == DOMAIN requests

\* JavaScript property access on a parsed JSON object: <<v>> or <<>> (undefined).
Prop(obj, key) == IF key \in DOMAIN obj THEN <<obj[key]>> ELSE <<>>

-----------------------------------------------------------------------------
(* The page.                                                                *)

\* document.body.innerHTML: Editor.vue renders <component is="style">{{ css }}
\* inside its template, so the body holds the stylesheet text; the colour-only
\* editor appends its <style id="css"> to document.head.
innerHTML(m, c) == [markup |-> m, style |-> c]

bodyInnerHTML ==
  IF client = "Editor" THEN innerHTML(markup, css) ELSE innerHTML(markup, NoCss)

\* Whether a body carrying this markup exceeds the 100kb that express.json()
\* reads.
OverLimit(html) == html.markup = "largepage" /\ html.style.kind # "empty"

\* JSON.stringify({ html: document.body.innerHTML, theme: { extend: config } })
stringify(html, config) ==
  [syntax |-> "json",
   big |-> OverLimit(html),
   json |-> [html |-> html, theme |-> [extend |-> config]]]

\* fetch('http://localhost:8080', { method: 'POST',
\*   headers: { 'content-type': 'application/json' }, body })
post(body) == [type |-> "application/json"] @@ body

\* fetchCss as it would be if it sent the imported default configuration
\* instead of its argument.
fetchCssDefault(tailwindCustomConfig) ==
  post(stringify(bodyInnerHTML, customTailwindConfig))

\* fetchCss(tailwindCustomConfig): the POST it issues.
fetchCss(tailwindCustomConfig) ==
  post(stringify(bodyInnerHTML, tailwindCustomConfig))

\* A request as fetch() puts it on the wire.
Request(body, el) ==
  [body |-> body, el |-> el, stage |-> "sent", piped |-> <<>>,
   status |-> 0, acao |-> FALSE, text |-> NoCss]

\* getStyleElement without its `if (!styleElement)` test.
getStyleElementAlways(els) == Append(els, NoCss)

\* getStyleElement(): the elements with id 'css' after the call, and the one
\* it returns (getElementById gives the first, a created one is appended).
getStyleElement(els) == IF Len(els) = 0 THEN Append(els, NoCss) ELSE els

styleElement(els) == IF Len(els) = 0 THEN Len(els) + 1 ELSE 1

\* fetch as it would be if the body were read when the request leaves, so
\* that the requests still in flight carried the newest payload.
IssueLive(body, el) ==
  /\ requests' = [i \in Ids \cup {nextId} |->
                    IF i = nextId THEN Request(body, el)
                    ELSE [requests[i] EXCEPT !.body = body]]
  /\ nextId' = nextId + 1

Issue(body, el) ==
  /\ requests' = [i \in Ids \cup {nextId} |->
                    IF i = nextId THEN Request(body, el) ELSE requests[i]]
  /\ nextId' = nextId + 1

\* Editor.vue getCss(): css.value = await fetchCss(editableCustomConfig)
\* up to the await, with the configuration as the caller sees it.
getCss(config) ==
  /\ Issue(fetchCss(config), 0)
  /\ UNCHANGED styleElements

\* The colour-only editor's getCss(): getStyleElement().innerHTML = await fetch(...)
\* up to the await; the element is looked up before the request is made.
getCssApp(palette) ==
  /\ styleElements' = getStyleElement(styleElements)
  /\ Issue(post(stringify(bodyInnerHTML, [colors |-> palette])),
           styleElement(styleElements))

\* The mounted hook as it would be without its getCss call.
MountSilent ==
  /\ ~mounted
  /\ client \in {"Editor", "App"}
  /\ mounted' = TRUE
  /\ UNCHANGED <<client, markup, editableCustomConfig, editableColors, css,
                 colorInput, styleElements, requests, nextId, applied,
                 failures, listening>>

\* onMounted(getCss)
Mount ==
  /\ ~mounted
  /\ client \in {"Editor", "App"}
  /\ mounted' = TRUE
  /\ IF client = "Editor" THEN getCss(editableCustomConfig)
     ELSE getCssApp(editableColors)
  /\ UNCHANGED <<client, markup, editableCustomConfig, editableColors, css,
                 colorInput, applied, failures, listening>>

CanEdit(c) == client = c /\ mounted /\ nextId <= MaxRequests

\* A write to the configuration as it would be with no watcher on it.
WriteQuiet(leaf, v) ==
  /\ Prop(editableCustomConfig, leaf) # <<v>>
  /\ editableCustomConfig' =
       [l \in DOMAIN editableCustomConfig \cup {leaf} |->
          IF l = leaf THEN v ELSE editableCustomConfig[l]]
  /\ UNCHANGED <<client, markup, mounted, editableColors, css, colorInput,
                 styleElements, requests, nextId, applied, failures, listening>>

\* A write to the reactive configuration, and watch(editableCustomConfig, getCss):
\* the watcher runs before any other task; a write of the value the leaf
\* already has is no mutation, a write to a key the object lacks adds it.
Write(leaf, v) ==
  /\ Prop(editableCustomConfig, leaf) # <<v>>
  /\ editableCustomConfig' =
       [l \in DOMAIN editableCustomConfig \cup {leaf} |->
          IF l = leaf THEN v ELSE editableCustomConfig[l]]
  /\ getCss(editableCustomConfig')
  /\ UNCHANGED <<client, markup, mounted, editableColors, css, colorInput,
                 applied, failures, listening>>

\* The colour input as it would be with v-model and no lazy modifier: each
\* input event writes the shade.
DragColorEager(leaf, v) ==
  /\ CanEdit("Editor")
  /\ v # colorInput[leaf]
  /\ editableCustomConfig' = [editableCustomConfig EXCEPT ![leaf] = v]
  /\ colorInput' = [colorInput EXCEPT ![leaf] = v]
  /\ getCss(editableCustomConfig')
  /\ UNCHANGED <<client, markup, mounted, editableColors, css, applied,
                 failures, listening>>

\* <input type="color" v-model.lazy="color[shadeName]">: an input event, while
\* the user moves over the colour picker.  v-model.lazy listens to change
\* alone, so only the element's own value moves.
DragColor(leaf, v) ==
  /\ CanEdit("Editor")
  /\ v # colorInput[leaf]
  /\ colorInput' = [colorInput EXCEPT ![leaf] = v]
  /\ UNCHANGED <<client, markup, mounted, editableCustomConfig, editableColors,
                 css, styleElements, requests, nextId, applied, failures,
                 listening>>

\* <input type="color" v-model.lazy="color[shadeName]">: the change event,
\* which assigns the element's value to the shade.
CommitColor(leaf, v) ==
  /\ CanEdit("Editor")
  /\ colorInput[leaf] = v
  /\ Write(leaf, v)

\* :value="editableCustomConfig.fontSize[sizeName].replace('rem','')"
fontSizeValue(stored) == replace(stored, rem, <<>>)

\* The @input handler as it would be if it stored the field's value as it is.
fontSizeInputBare(value) == value

\* event.target.value + 'rem'
fontSizeInput(value) == value \o rem

\* @input="event => editableCustomConfig.fontSize[sizeName] = event.target.value + 'rem'"
InputFontSize(leaf, v) ==
  /\ CanEdit("Editor")
  /\ Write(leaf, fontSizeInput(v))

\* The weight input as it would be if it wrote to the name its label shows,
\* weightName.replace('weight-', ''), instead of weightName.
InputFontWeightByLabel(leaf, v) ==
  /\ CanEdit("Editor")
  /\ Write(<<leaf[1], "button">>, v)

\* <input type="number" step="100" min="100" max="900" v-model="...">: the
\* input event of a typed value; min and max bound the stepper, not the
\* keyboard.
InputFontWeight(leaf, v) ==
  /\ CanEdit("Editor")
  /\ Write(leaf, v)

\* The colour-only editor: v-model.lazy on editableColors, watch(editableColors, getCss)
CommitPalette(leaf, v) ==
  /\ CanEdit("App")
  /\ v # editableColors[leaf]
  /\ editableColors' = [editableColors EXCEPT ![leaf] = v]
  /\ getCssApp(editableColors')
  /\ UNCHANGED <<client, markup, mounted, editableCustomConfig, css,
                 colorInput, applied, failures, listening>>

-----------------------------------------------------------------------------
(* The rendering service.                                                   *)

\* The page Express's default error handler sends with a status.
ErrorPage(status) == [kind |-> "error", status |-> status]

\* The two middlewares registered the other way round.
appUseCorsFirst == <<"cors", "express.json">>

\* app.use(express.json()); app.use(cors()): the order of registration.
appUse == <<"express.json", "cors">>

Before(a, b) ==
  \E i, j \in DOMAIN appUse : i < j /\ appUse[i] = a /\ appUse[j] = b

\* app.use(express.json()): a body of another media type is not read and
\* req.body stays {}; a body over the 100kb limit ends the request with 413, a
\* body that does not parse with 400; otherwise req.body is the parsed object.
expressJson(raw) ==
  IF raw.type # "application/json" THEN [next |-> TRUE, status |-> 0, body |-> <<>>]
  ELSE IF raw.big THEN [next |-> FALSE, status |-> 413, body |-> <<>>]
  ELSE IF raw.syntax # "json" THEN [next |-> FALSE, status |-> 400, body |-> <<>>]
  ELSE [next |-> TRUE, status |-> 0, body |-> raw.json]

\* app.use(cors()): Access-Control-Allow-Origin is set on a response once the
\* request has reached the middleware; an error raised by a middleware
\* registered before it goes straight to the error handler.
cors(failedIn) == failedIn = "" \/ Before("cors", failedIn)

\* tailwindcss({ content: [{ raw: req.body.html, extension: 'html' }],
\*               theme: req.body.theme })
tailwindcss(body) ==
  [content |-> <<[raw |-> Prop(body, "html"), extension |-> "html"]>>,
   theme |-> Prop(body, "theme")]

\* A theme of a shape the generator rejects.
InvalidTheme == [screens |-> "not-a-breakpoint-map"]

\* postcss([configuredTailwind]).process(defaultCss): whether it throws.  The
\* generator rejects an invalid theme; an undefined theme leaves it with its
\* defaults and a content entry whose raw is no string is skipped.
Throws(configured) == configured.theme = <<InvalidTheme>>

\* const { css } = await postcssProcessor.process(defaultCss)
process(configured, input) == [kind |-> "css", input |-> input, config |-> configured]

\* res.send(css), or the error handler's page
Answer(r, status, acao, text) ==
  [r EXCEPT !.stage = "answered", !.status = status, !.acao = acao,
            !.text = text]

\* The request passes express.json() and the route handler runs up to its await.
Receive(i) ==
  /\ listening
  /\ requests[i].stage = "sent"
  /\ LET parsed == expressJson(requests[i].body)
     IN requests' = [requests EXCEPT ![i] =
          IF parsed.next
          THEN [@ EXCEPT !.stage = "processing",
                         !.piped = <<tailwindcss(parsed.body)>>]
          ELSE Answer(@, parsed.status, cors("express.json"),
                      ErrorPage(parsed.status))]
  /\ UNCHANGED <<client, markup, mounted, editableCustomConfig, editableColors,
                 css, colorInput, styleElements, nextId, applied, failures,
                 listening>>

\* The awaited promise settles.  Fulfilled: res.send(css).  Rejected: the async
\* handler has no catch and Express 4 does not look at the promise it returns,
\* so nothing is written to the response, and the unhandled rejection either
\* is logged (Node 14) or ends the process (Node 15 and later).
Settle(i) ==
  /\ listening
  /\ requests[i].stage = "processing"
  /\ IF Throws(requests[i].piped[1])
     THEN /\ requests' = [requests EXCEPT ![i].stage = "unanswered"]
          /\ listening' \in BOOLEAN
     ELSE /\ requests' = [requests EXCEPT ![i] =
               Answer(@, 200, cors(""), process(@.piped[1], defaultCss))]
          /\ UNCHANGED listening
  /\ UNCHANGED <<client, markup, mounted, editableCustomConfig, editableColors,
                 css, colorInput, styleElements, nextId, applied, failures>>

-----------------------------------------------------------------------------
(* Responses reach the page.                                                *)

Remove(i) == requests' = [j \in Ids \ {i} |-> requests[j]]

\* The page is served from another origin than http://localhost:8080: the
\* browser hands a response to the script only if it carries
\* Access-Control-Allow-Origin, and rejects the fetch promise otherwise.
Readable(r) == r.acao

\* The text as it would be if the page took the status page of a response
\* for its body.
responseTextStatus(r) == ErrorPage(r.status)

\* .then(response => response.text()): the text the awaiting getCss assigns,
\* whatever the status of the response.
responseText(r) == r.text

\* getCss as it would be if it dropped the response of a request issued
\* before the one the stylesheet shows.
DeliverNewest(i) ==
  /\ client \in {"Editor", "App"}
  /\ requests[i].stage = "answered"
  /\ IF ~Readable(requests[i]) \/ i < applied
     THEN UNCHANGED <<css, styleElements, applied>>
     ELSE /\ applied' = i
          /\ IF client = "Editor"
             THEN css' = responseText(requests[i]) /\ UNCHANGED styleElements
             ELSE /\ styleElements' = [styleElements EXCEPT
                       ![requests[i].el] = responseText(requests[i])]
                  /\ UNCHANGED css
  /\ failures' = IF requests[i].status # 200 THEN failures \cup {"status"}
                 ELSE failures
  /\ Remove(i)
  /\ UNCHANGED <<client, markup, mounted, editableCustomConfig, editableColors,
                 colorInput, nextId, listening>>

\* The response reaches the browser.  The fetch promise fulfils and getCss
\* resumes after its await: css.value = <text>, or
\* <the style element>.innerHTML = <text>.  Or the promise rejects, the await
\* throws and the assignment never runs.
Deliver(i) ==
  /\ client \in {"Editor", "App"}
  /\ requests[i].stage = "answered"
  /\ IF ~Readable(requests[i])
     THEN UNCHANGED <<css, styleElements, applied>>
     ELSE /\ applied' = i
          /\ IF client = "Editor"
             THEN css' = responseText(requests[i]) /\ UNCHANGED styleElements
             ELSE /\ styleElements' = [styleElements EXCEPT
                       ![requests[i].el] = responseText(requests[i])]
                  /\ UNCHANGED css
  /\ failures' = IF requests[i].status # 200 THEN failures \cup {"status"}
                 ELSE failures
  /\ Remove(i)
  /\ UNCHANGED <<client, markup, mounted, editableCustomConfig, editableColors,
                 colorInput, nextId, listening>>

\* The fetch promise rejects (service unreachable, connection reset): the
\* await throws inside getCss and the assignment never runs.
NetworkError(i) ==
  /\ client \in {"Editor", "App"}
  /\ i \in Ids
  /\ failures' = failures \cup {"network"}
  /\ Remove(i)
  /\ UNCHANGED <<client, markup, mounted, editableCustomConfig, editableColors,
                 css, colorInput, styleElements, nextId, applied, listening>>

-----------------------------------------------------------------------------
(* Other clients of the service.                                            *)

PlainHtml == innerHTML("page", NoCss)

Json(object) == [syntax |-> "json", big |-> FALSE, json |-> object]
Garbage == [syntax |-> "garbage", big |-> FALSE, json |-> <<>>]

\* What another client may post: a well-formed body, a theme the generator
\* rejects, a body without theme, a body without html, text that is no JSON,
\* and the same text under another media type.
OtherPosts ==
  { post(stringify(PlainHtml, customTailwindConfig)),
    post(Json([html |-> PlainHtml, theme |-> InvalidTheme])),
    post(Json([theme |-> [extend |-> customTailwindConfig]])),
    post(Json([html |-> PlainHtml])),
    post(Garbage),
    [type |-> "text/plain"] @@ Garbage }

\* POST / from a client that is not the editor
ClientPost(body) ==
  /\ client = "Other"
  /\ nextId <= MaxOther
  /\ Issue(body, 0)
  /\ UNCHANGED <<client, markup, mounted, editableCustomConfig, editableColors,
                 css, colorInput, styleElements, applied, failures, listening>>

-----------------------------------------------------------------------------
Init ==
  /\ client \in {"Editor", "App", "Other"}
  /\ markup \in Markups
  /\ mounted = FALSE
  /\ editableCustomConfig = customTailwindConfig
  /\ editableColors = editableColorsInit
  /\ css = NoCss
  /\ colorInput = [l \in ColorLeaves |-> customTailwindConfig[l]]
  /\ styleElements = <<>>
  /\ requests = <<>>
  /\ nextId = 1
  /\ applied = 0
  /\ failures = {}
  /\ listening = TRUE

Next ==
  \/ Mount
  \/ \E l \in ColorLeaves, v \in ColorInputs : DragColor(l, v)
  \/ \E l \in ColorLeaves, v \in ColorInputs : CommitColor(l, v)
  \/ \E l \in SizeLeaves, v \in SizeInputs : InputFontSize(l, v)
  \/ \E l \in WeightLeaves, v \in WeightInputs : InputFontWeight(l, v)
  \/ \E l \in DOMAIN editableColors, v \in PaletteInputs : CommitPalette(l, v)
  \/ \E b \in OtherPosts : ClientPost(b)
  \/ \E i \in Ids : Receive(i)
  \/ \E i \in Ids : Settle(i)
  \/ \E i \in Ids : Deliver(i)
  \/ \E i \in Ids : NetworkError(i)

Spec == Init /\ [][Next]_vars
-----------------------------------------------------------------------------
(* What the stylesheet shows, and the theme a request issued now carries.   *)

PageRun == client \in {"Editor", "App"}

Stylesheet == IF client = "App" THEN styleElements ELSE <<css>>

ThemeNow ==
  IF client = "App" THEN [extend |-> [colors |-> editableColors]]
  ELSE [extend |-> editableCustomConfig]

\* Request i leaves the page's pending set in this step.
Settled(i) == i \in Ids /\ i \notin DOMAIN requests'

\* The page assigns the response to request i in this step.
Accepted(i) == Settled(i) /\ applied' = i

-----------------------------------------------------------------------------
(* C1: the stylesheet is only written by the most recently issued response: *)
(* a response to a request issued before the one now applied never          *)
(* replaces it.                                                             *)
C1_StaleNeverOverwrites == [][\A i \in Ids : Accepted(i) => i > applied]_vars

(* C2: once no request is pending and none has failed, the stylesheet is    *)
(* the response to the last request issued, which carries the final         *)
(* configuration.                                                           *)
C2_SettledInSync ==
  (PageRun /\ mounted /\ Ids = {} /\ failures = {}) =>
    /\ applied = nextId - 1
    /\ Stylesheet[1].kind = "css"
    /\ Stylesheet[1].config.theme = <<ThemeNow>>

(* C3: a render request that fails, by a network error or by a response     *)
(* with a status other than 200, leaves the stylesheet as it was.           *)
C3_FailureKeepsStylesheet ==
  [][\A i \in Ids :
       (Settled(i) /\ (requests[i].status # 200 \/ ~Accepted(i)))
         => Stylesheet' = Stylesheet]_vars

\* The first response is applied; a later request, whose body the applied
\* stylesheet pushed over the limit, was answered 413 and has settled, and the
\* stylesheet still shows the first response.
C3_Witness ==
  /\ client = "Editor" /\ markup = "largepage"
  /\ failures = {"status"} /\ Ids = {} /\ nextId >= 3
  /\ applied = 1 /\ css.kind = "css"

(* C4: a request whose pipeline run threw is answered (with a server error); *)
(* it is never left without a response.                                     *)
C4_ThrowAnswered == \A i \in Ids : requests[i].stage # "unanswered"

(* C5: after a request whose pipeline run threw, the service is still       *)
(* listening.                                                               *)
C5_ServiceSurvives ==
  (\E i \in Ids : requests[i].stage = "unanswered") => listening

(* C6: a request whose body is not valid JSON is answered with a client     *)
(* error and the pipeline is not invoked for it.                            *)
C6_MalformedRejected ==
  \A i \in Ids :
    (requests[i].body.syntax # "json" /\ requests[i].stage # "sent") =>
      /\ requests[i].stage = "answered"
      /\ requests[i].status \in 400..499
      /\ requests[i].piped = <<>>

(* C7: a request whose JSON body lacks html or theme is answered with a     *)
(* client error and the pipeline is not invoked for it.                     *)
C7_MissingFieldRejected ==
  \A i \in Ids :
    ( /\ requests[i].body.syntax = "json"
      /\ ~({"html", "theme"} \subseteq DOMAIN requests[i].body.json)
      /\ requests[i].stage # "sent" ) =>
      /\ requests[i].stage = "answered"
      /\ requests[i].status \in 400..499
      /\ requests[i].piped = <<>>

(* C8: the document never holds more than one style element with id 'css';  *)
(* the first render creates it, and a successful render with no other       *)
(* request pending leaves the stylesheet equal to its response.             *)
C8_SingleStylesheet ==
  /\ [](Len(styleElements) <= 1)
  /\ []((client = "App" /\ mounted) => Len(styleElements) = 1)
  /\ [][\A i \in Ids :
          (Accepted(i) /\ Ids = {i} /\ requests[i].status = 200)
            => Stylesheet' = <<requests[i].text>>]_vars

\* One response is applied, two more requests are pending, one element.
C8_Witness ==
  /\ client = "App" /\ applied >= 1 /\ Cardinality(Ids) >= 2
  /\ Len(styleElements) = 1 /\ styleElements[1].kind = "css"

(* C9: every font weight a render request carries lies in 100..900.         *)
C9_WeightInRange ==
  \A i \in Ids :
    client = "Editor" =>
      \A l \in WeightLeaves : requests[i].body.json.theme.extend[l] \in 100..900

(* C10: a step that changes the configuration issues exactly one new        *)
(* request, whose body is the page markup of that moment and the whole new  *)
(* configuration; no step changes the body of a request already issued.     *)
C10_MutationIssuesFullRequest ==
  [][ /\ ThemeNow' # ThemeNow =>
           /\ nextId \notin Ids
           /\ DOMAIN requests' = Ids \cup {nextId}
           /\ requests'[nextId].stage = "sent"
           /\ requests'[nextId].body.json =
                [html |-> bodyInnerHTML, theme |-> ThemeNow']
      /\ \A i \in Ids \cap DOMAIN requests' :
           requests'[i].body = requests[i].body ]_vars

\* Two requests are pending with different configurations; the later one
\* carries the current configuration and a stylesheet is already applied.
C10_Witness ==
  /\ client = "Editor" /\ applied >= 1
  /\ \E i, j \in Ids :
       /\ i < j
       /\ requests[i].body.json.theme # requests[j].body.json.theme
       /\ requests[j].body.json.theme = ThemeNow
       /\ requests[j].body.json.html.style.kind = "css"

(* C11: every font-size value of the configuration, and of every request   *)
(* the editor has issued, ends in 'rem'.                                    *)
C11_FontSizeKeepsUnit ==
  /\ \A l \in SizeLeaves : endsWith(editableCustomConfig[l], rem)
  /\ client = "Editor" =>
       \A i \in Ids, l \in SizeLeaves :
         endsWith(requests[i].body.json.theme.extend[l], rem)

\* A request carries a font size the user entered, another the emptied field.
C11_Witness ==
  /\ client = "Editor"
  /\ \E i, j \in Ids, l \in SizeLeaves :
       /\ requests[i].body.json.theme.extend[l] = <<"1", ".", "5">> \o rem
       /\ requests[j].body.json.theme.extend[l] = rem
       /\ editableCustomConfig[l] = rem

(* C12: the font-size field shows the stored value without its 'rem'        *)
(* suffix (stored "1.25rem" shows "1.25"), an input of v stores v followed  *)
(* by 'rem' (an input of "1.5" stores "1.5rem"), and the field then shows   *)
(* v again.                                                                 *)
C12_FontSizeRoundTrip ==
  /\ [](\A l \in SizeLeaves :
          fontSizeValue(editableCustomConfig[l]) \o rem = editableCustomConfig[l])
  /\ [](\A l \in SizeLeaves :
          editableCustomConfig[l] = <<"1", ".", "2", "5">> \o rem
            => fontSizeValue(editableCustomConfig[l]) = <<"1", ".", "2", "5">>)
  /\ [][\A l \in SizeLeaves :
          editableCustomConfig'[l] # editableCustomConfig[l] =>
            \E v \in SizeInputs :
              /\ editableCustomConfig'[l] = v \o rem
              /\ fontSizeValue(editableCustomConfig'[l]) = v]_vars

\* The stored value is "1.5rem", entered over the default "1.25rem" that a
\* request carries, and shows as "1.5".
C12_Witness ==
  /\ client = "Editor"
  /\ \E l \in SizeLeaves :
       /\ editableCustomConfig[l] = <<"1", ".", "5">> \o rem
       /\ fontSizeValue(editableCustomConfig[l]) = <<"1", ".", "5">>
       /\ \E i \in Ids :
            requests[i].body.json.theme.extend[l] = <<"1", ".", "2", "5">> \o rem

(* C13: an input event on a colour field, before the change event, leaves   *)
(* the configuration and the requests as they are; a shade changes only by  *)
(* the change event, which writes the field's value and issues one request  *)
(* carrying it.                                                             *)
C13_ColorCommitsOnChange ==
  [][\A l \in ColorLeaves :
       /\ colorInput'[l] # colorInput[l] =>
            /\ editableCustomConfig' = editableCustomConfig
            /\ requests' = requests
            /\ nextId' = nextId
       /\ editableCustomConfig'[l] # editableCustomConfig[l] =>
            /\ colorInput' = colorInput
            /\ editableCustomConfig'[l] = colorInput[l]
            /\ nextId' = nextId + 1
            /\ nextId \in DOMAIN requests'
            /\ requests'[nextId].body.json.theme.extend[l] = colorInput[l]]_vars

\* The picker has moved to a colour the configuration does not hold, and a
\* colour picked earlier was committed and requested.
C13_Witness ==
  /\ client = "Editor"
  /\ \E l \in ColorLeaves :
       /\ colorInput[l] # editableCustomConfig[l]
       /\ editableCustomConfig[l] # customTailwindConfig[l]
       /\ \E i \in Ids :
            requests[i].body.json.theme.extend[l] = editableCustomConfig[l]

(* C14: the editor issues no request before it is mounted; its first       *)
(* request is issued by the mounted hook, before any edit, and carries the  *)
(* static default configuration, colors.primary.50 = '#243d48' included.    *)
C14_FirstRequestAtMount ==
  /\ [](client = "Editor" /\ ~mounted =>
          /\ Ids = {} /\ nextId = 1
          /\ editableCustomConfig = customTailwindConfig)
  /\ [][client = "Editor" /\ nextId = 1 /\ nextId' # nextId =>
          /\ ~mounted /\ mounted'
          /\ editableCustomConfig' = customTailwindConfig
          /\ DOMAIN requests' = {1}
          /\ requests'[1].stage = "sent"
          /\ requests'[1].body.json.theme = [extend |-> customTailwindConfig]
          /\ requests'[1].body.json.theme.extend[<<"colors", "primary", "50">>]
               = "#243d48"]_vars

\* The first request is still in flight with the default configuration, and
\* the configuration has been edited since.
C14_Witness ==
  /\ client = "Editor" /\ mounted
  /\ 1 \in Ids
  /\ requests[1].body.json.theme = [extend |-> customTailwindConfig]
  /\ editableCustomConfig # customTailwindConfig

(* C15: the service's response to a request depends on that request alone: *)
(* of two requests with the same body, when one has been answered the other *)
(* has been answered alike, or is still to be answered by the service.      *)
C15_SameRequestSameResponse ==
  \A i, j \in Ids :
    requests[i].body = requests[j].body /\ requests[i].stage = "answered" =>
      \/ /\ requests[j].stage = "answered"
         /\ requests[j].status = requests[i].status
         /\ requests[j].acao = requests[i].acao
         /\ requests[j].text = requests[i].text
      \/ /\ requests[j].stage \in {"sent", "processing"}
         /\ listening

(* C16: a request whose body is JSON with an html and a theme the          *)
(* generator accepts is piped once, as { content: [{ raw: html, extension:  *)
(* 'html' }], theme }, over the baseline stylesheet, and is answered 200    *)
(* with the pipeline's output.                                              *)
C16_WellFormedRendered ==
  \A i \in Ids :
    LET r == requests[i]
        configured ==
          [content |-> <<[raw |-> <<r.body.json.html>>, extension |-> "html"]>>,
           theme |-> <<r.body.json.theme>>]
    IN /\ r.body.type = "application/json"
       /\ r.body.syntax = "json"
       /\ {"html", "theme"} \subseteq DOMAIN r.body.json
       /\ ~Throws(configured)
       => /\ r.stage # "unanswered"
          /\ r.stage = "processing" => r.piped = <<configured>>
          /\ r.stage = "answered" =>
               /\ r.status = 200
               /\ r.piped = <<configured>>
               /\ r.text = process(configured, defaultCss)

(* C17: the configuration has the keys of the static default in every      *)
(* state, and so has the theme of every request the editor issues: edits    *)
(* change leaf values only.                                                 *)
C17_KeysStable ==
  client = "Editor" =>
    /\ DOMAIN editableCustomConfig = DOMAIN customTailwindConfig
    /\ \A i \in Ids :
         DOMAIN requests[i].body.json.theme.extend = DOMAIN customTailwindConfig

\* Two categories have been edited, the weight among them.
C17_Witness ==
  /\ client = "Editor"
  /\ \E l \in WeightLeaves : editableCustomConfig[l] # customTailwindConfig[l]
  /\ \E l \in ColorLeaves \cup SizeLeaves :
       editableCustomConfig[l] # customTailwindConfig[l]

(* C18: a mutation made while requests are pending issues a further        *)
(* request and leaves the pending ones in flight as they are; and, network  *)
(* failures aside, every 200 response that reaches the page is written to   *)
(* the stylesheet when it arrives, also after the response to a request     *)
(* issued later.                                                            *)
C18_NoCancelNoCoalesce ==
  [][PageRun =>
       /\ nextId' # nextId =>
            /\ nextId' = nextId + 1
            /\ DOMAIN requests' = Ids \cup {nextId}
            /\ requests'[nextId].stage = "sent"
            /\ \A i \in Ids : requests'[i] = requests[i]
       /\ \A i \in Ids :
            /\ Settled(i)
            /\ requests[i].stage = "answered" /\ requests[i].status = 200
            /\ "network" \notin failures'
            => /\ applied' = i
               /\ client = "Editor" => css' = requests[i].text
               /\ client = "App" =>
                    styleElements'[requests[i].el] = requests[i].text]_vars

\* Two requests overlapped, both were answered, and the response to the first
\* was written after the response to the second.
C18_Witness ==
  /\ PageRun
  /\ nextId = 3 /\ Ids = {}
  /\ failures = {}
  /\ applied = 1

(* The editor's situations: before the mounted hook, with a request         *)
(* pending, and idle with a stylesheet applied.                             *)
Uninitialized == client = "Editor" /\ ~mounted
Rendering == client = "Editor" /\ mounted /\ Ids # {}
Rendered == client = "Editor" /\ mounted /\ Ids = {} /\ applied > 0

(* C19: the editor starts Uninitialized, with no request and no stylesheet; *)
(* the only step out of Uninitialized is the mounted hook and it leads to   *)
(* Rendering; a stylesheet is applied only by a step out of Rendering; a    *)
(* mutation in Rendered leads to Rendering; and in every state after        *)
(* mounting, a failed request included, a mutation is possible, each        *)
(* mutation issuing a request.                                              *)
C19_EditorStateMachine ==
  /\ [](Uninitialized => Ids = {} /\ applied = 0 /\ css = NoCss)
  /\ [](client = "Editor" /\ mounted /\ nextId <= MaxRequests =>
          ENABLED (\E l \in WeightLeaves, v \in WeightInputs : InputFontWeight(l, v)))
  /\ [][client = "Editor" =>
          /\ Uninitialized => Rendering'
          /\ ~Uninitialized => ~Uninitialized'
          /\ applied' # applied \/ css' # css => Rendering
          /\ Rendered' /\ ~Rendered => Rendering
          /\ editableCustomConfig' # editableCustomConfig =>
               /\ ~Uninitialized
               /\ Rendering'
               /\ nextId' = nextId + 1
               /\ nextId \in DOMAIN requests'
               /\ requests'[nextId].stage = "sent"]_vars

\* The first request has failed, no stylesheet is applied, and a mutation
\* made since has a request pending.
C19_Witness ==
  /\ Rendering
  /\ applied = 0
  /\ failures # {}
  /\ Ids = {2}
  /\ requests[2].body.json.theme.extend # customTailwindConfig

(* C20: the markup snapshot of a request the page issues holds no CSS text  *)
(* that an earlier response returned.                                       *)
C20_SnapshotHoldsNoResponse ==
  PageRun => \A i \in Ids : requests[i].body.json.html.style = NoCss

(* C21: the editor's stylesheet is empty until the first response is       *)
(* applied; it changes only in the step in which a response reaches the     *)
(* page, to the body of that response; and a step that edits the            *)
(* configuration leaves it as it is.                                        *)
C21_StylesheetFromResponses ==
  /\ [](client = "Editor" /\ applied = 0 => css = NoCss)
  /\ [][client = "Editor" =>
          /\ css' # css =>
               \E i \in Ids :
                 /\ Settled(i)
                 /\ requests[i].stage = "answered"
                 /\ css' = requests[i].text
          /\ editableCustomConfig' # editableCustomConfig \/ colorInput' # colorInput
               => css' = css
          /\ applied' # applied =>
               \E i \in Ids : Settled(i) /\ css' = requests[i].text]_vars

\* The stylesheet holds the first response, and an edit made since has its
\* request pending.
C21_Witness ==
  /\ client = "Editor"
  /\ applied = 1
  /\ css # NoCss
  /\ 2 \in Ids
  /\ editableCustomConfig # customTailwindConfig

(* C22: a step that edits the configuration changes one leaf and leaves    *)
(* every other leaf, in every category, as it was; the payloads of the      *)
(* requests in flight stay as they were issued.                             *)
C22_EditChangesOneLeaf ==
  [][client = "Editor" /\ editableCustomConfig' # editableCustomConfig =>
       /\ DOMAIN editableCustomConfig' = DOMAIN editableCustomConfig
       /\ \E l \in DOMAIN editableCustomConfig :
            /\ editableCustomConfig'[l] # editableCustomConfig[l]
            /\ \A m \in DOMAIN editableCustomConfig \ {l} :
                 editableCustomConfig'[m] = editableCustomConfig[m]
            /\ requests'[nextId].body.json.theme.extend = editableCustomConfig'
       /\ \A i \in Ids :
            /\ i \in DOMAIN requests'
            /\ requests'[i].body = requests[i].body]_vars

\* Two requests are in flight: the first carries the default configuration,
\* the second differs from it in the weight alone.
C22_Witness ==
  /\ client = "Editor"
  /\ {1, 2} \subseteq Ids
  /\ requests[1].body.json.theme.extend = customTailwindConfig
  /\ \E l \in WeightLeaves :
       /\ requests[2].body.json.theme.extend[l] # customTailwindConfig[l]
       /\ \A m \in Leaves \ {l} :
            requests[2].body.json.theme.extend[m] = customTailwindConfig[m]

====
